---- MODULE Spec2Model ----
(***************************************************************************)
(* A model of fbug's state-machine engine (src/src/state.rs): the graph    *)
(* StateMachine::new builds from the configured states and transitions,    *)
(* list_triggers, list_actions and process_line; and of its connection     *)
(* supervisor (src/src/connections, src/src/lib.rs): Connections::new,     *)
(* Connections::poll, Serial::read and the tasks of main_loop.             *)
(*                                                                         *)
(* Text is modelled as a sequence of one-character strings, so that the    *)
(* substring and regular-expression tests of process_line are computed.    *)
(***************************************************************************)
EXTENDS Integers, Sequences, FiniteSets, TLC

VARIABLES
    device,     \* the loaded configuration: [states, transitions] (config.rs Device)
    sm,         \* the StateMachine: [states: StateGraph, current_state]
    phase,      \* "config", then "built" after StateMachine::new ("error" when it
                \* failed), "ready" once the triggers are listed, "panicked"
    inputs,     \* the lines the device can emit
    ret,        \* what the last call returned
    c_info,     \* the configured connection descriptors (Connections::c_info)
    connections,\* the supervisor's handles (Connections::connections)
    inotify,    \* the filesystem watch: [watches, events]
    rx,         \* the event channel from the handles to the dispatch loop
    prx,        \* the property broadcast channel from the dispatch loop
    pc,         \* where main_loop and its tasks are: [main, conn, event, ctrl],
                \* and act: the callers of SerialControl::action
    env,        \* the world outside: device files, what the devices have sent
    log         \* what has been observed so far

connvars == <<c_info, connections, inotify, rx, prx, pc, env, log>>

vars == <<device, sm, phase, inputs, ret, c_info, connections, inotify, rx, prx, pc, env, log>>

-----------------------------------------------------------------------------
(* Bounds of the model.                                                    *)

MaxTrans == 2        \* transitions in a configuration
MaxLineLen == 4      \* characters of a generated line
MaxValueLen == 4     \* characters of a generated action value

-----------------------------------------------------------------------------
(* Sequence helpers.                                                       *)

Range(s) == { s[i] : i \in DOMAIN s }

RECURSIVE Flatten(_)
Flatten(ss) == IF ss = <<>> THEN <<>> ELSE Head(ss) \o Flatten(Tail(ss))

RECURSIVE SumSeq(_)
SumSeq(s) == IF s = <<>> THEN 0 ELSE Head(s) + SumSeq(Tail(s))

\* All sequences over S of length at most n.
RECURSIVE SeqsUpTo(_, _)
SeqsUpTo(S, n) ==
    IF n = 0 THEN { <<>> }
    ELSE LET shorter == SeqsUpTo(S, n - 1)
         IN  shorter \cup { Append(s, x) : s \in { t \in shorter : Len(t) = n - 1 }, x \in S }

-----------------------------------------------------------------------------
(* Pattern matching as process_line does it (state.rs 214-227).            *)

\* str::starts_with
starts_with(s, p) == Len(s) >= Len(p) /\ SubSeq(s, 1, Len(p)) = p

\* line.matches(value).count(): the non-overlapping occurrences of value in
\* line, scanned from the left; the empty pattern matches at every boundary.
RECURSIVE matches_count_from(_, _, _)
matches_count_from(line, value, i) ==
    IF i + Len(value) - 1 > Len(line) THEN 0
    ELSE IF SubSeq(line, i, i + Len(value) - 1) = value
         THEN 1 + matches_count_from(line, value, i + Len(value))
         ELSE matches_count_from(line, value, i + 1)

matches_count(line, value) ==
    IF value = <<>> THEN Len(line) + 1 ELSE matches_count_from(line, value, 1)

\* Regex::new: the regex crate's syntax restricted to literal characters,
\* ".", the anchors "^" and "$", and "(" which, never being closed here,
\* makes the pattern fail to compile.
Regex_new_ok(re) == \A j \in DOMAIN re : re[j] # "("

\* Does re, from its j-th element, match line at position i?
RECURSIVE regex_match_here(_, _, _, _)
regex_match_here(re, j, line, i) ==
    IF j > Len(re) THEN TRUE
    ELSE IF re[j] = "^" THEN i = 1 /\ regex_match_here(re, j + 1, line, i)
    ELSE IF re[j] = "$" THEN i = Len(line) + 1 /\ regex_match_here(re, j + 1, line, i)
    ELSE IF i > Len(line) THEN FALSE
    ELSE IF re[j] = "." THEN regex_match_here(re, j + 1, line, i + 1)
    ELSE re[j] = line[i] /\ regex_match_here(re, j + 1, line, i + 1)

\* Regex::is_match: an unanchored search, a match starting at any position.
is_match(re, line) == \E i \in 1..(Len(line) + 1) : regex_match_here(re, 1, line, i)

\* The regex compiled from the whole value, marker included.
action_test_keep_marker(value, line) ==
    IF starts_with(value, <<"^">>)
    THEN IF ~Regex_new_ok(value) THEN "panic"
         ELSE IF is_match(value, line) THEN "some" ELSE "none"
    ELSE IF matches_count(line, value) > 0 THEN "some" ELSE "none"

\* The closure of process_line's find_map applied to one action value:
\* "panic" (Regex::new(..).unwrap() on a pattern that does not compile),
\* "some" (the action matches) or "none".
action_test(value, line) ==
    IF starts_with(value, <<"^">>)
    THEN LET re == SubSeq(value, 2, Len(value))
         IN  IF ~Regex_new_ok(re) THEN "panic"
             ELSE IF is_match(re, line) THEN "some" ELSE "none"
    ELSE IF matches_count(line, value) > 0 THEN "some" ELSE "none"

-----------------------------------------------------------------------------
(* The graph library (rs_graph LinkedListGraph) as state.rs uses it.       *)
(* A graph is [nodes: the number of nodes, edges: the sequence of          *)
(* [src, snk] in insertion order].  Node handles are 1..nodes and None is  *)
(* the absent handle of Option<Node>.  The k-th inserted edge has the      *)
(* handle 2*(k-1); the handle 2*(k-1)+1 is the same edge seen from its     *)
(* sink (is_incoming), and both compare equal.                             *)

None == 0

new_builder == [nodes |-> 0, edges |-> <<>>]

\* Builder::add_edge returns the handle of the new edge.
add_edge_id(g) == 2 * Len(g.edges)

add_edge(g, u, v) == [g EXCEPT !.edges = Append(@, [src |-> u, snk |-> v])]

is_incoming(e) == e % 2 = 1

\* PartialEq of Edge: the direction bit is ignored.
edge_eq(e1, e2) == (e1 \div 2) = (e2 \div 2)

\* Vec::contains on a transition's ids.
ids_contains(ids, e) == \E i \in DOMAIN ids : edge_eq(ids[i], e)

\* Graph::edges(): every edge once, in insertion order.
graph_edges(g) == [ k \in 1..Len(g.edges) |-> 2 * (k - 1) ]

\* One adjacency list of node s among the first k edges, most recently
\* inserted first: the lists are singly linked and Builder::add_edge links
\* the new edge in front of the list.
RECURSIVE adjacency(_, _, _, _)
adjacency(g, s, side, k) ==
    IF k = 0 THEN <<>>
    ELSE IF side = "out" /\ g.edges[k].src = s
         THEN <<2 * (k - 1)>> \o adjacency(g, s, side, k - 1)
    ELSE IF side = "in" /\ g.edges[k].snk = s
         THEN <<2 * (k - 1) + 1>> \o adjacency(g, s, side, k - 1)
    ELSE adjacency(g, s, side, k - 1)

\* Directed::incident_edges(s): the out-list of s followed by its in-list.
incident_edges(g, s) ==
    adjacency(g, s, "out", Len(g.edges)) \o adjacency(g, s, "in", Len(g.edges))

-----------------------------------------------------------------------------
(* Graph construction (state.rs 133-185, 254-282).                         *)

\* Iterator::position(|s| s.name == name): the first index, 0 when absent.
position(states, name) ==
    IF \E i \in DOMAIN states : states[i].name = name
    THEN CHOOSE i \in DOMAIN states :
            /\ states[i].name = name
            /\ \A j \in 1..(i - 1) : states[j].name # name
    ELSE 0

\* A wildcard that also starts from the target itself.
get_states_for_transition_all(states, ts) ==
    LET from == [ i \in DOMAIN ts.from |-> position(states, ts.from[i]) ]
        to   == position(states, ts.to)
    IN  IF \E i \in DOMAIN from : from[i] = 0 THEN [ok |-> FALSE, to |-> 0, from |-> <<>>]
        ELSE IF to = 0 THEN [ok |-> FALSE, to |-> 0, from |-> <<>>]
        ELSE [ok   |-> TRUE,
              to   |-> to,
              from |-> IF Len(from) = 0 THEN [ i \in DOMAIN states |-> i ] ELSE from]

\* A wildcard that is not expanded.
get_states_for_transition_none(states, ts) ==
    LET from == [ i \in DOMAIN ts.from |-> position(states, ts.from[i]) ]
        to   == position(states, ts.to)
    IN  IF \E i \in DOMAIN from : from[i] = 0 THEN [ok |-> FALSE, to |-> 0, from |-> <<>>]
        ELSE IF to = 0 THEN [ok |-> FALSE, to |-> 0, from |-> <<>>]
        ELSE [ok |-> TRUE, to |-> to, from |-> from]

get_states_for_transition(states, ts) ==
    LET from == [ i \in DOMAIN ts.from |-> position(states, ts.from[i]) ]
        to   == position(states, ts.to)
    IN  IF \E i \in DOMAIN from : from[i] = 0 THEN [ok |-> FALSE, to |-> 0, from |-> <<>>]
        ELSE IF to = 0 THEN [ok |-> FALSE, to |-> 0, from |-> <<>>]
        ELSE [ok   |-> TRUE,
              to   |-> to,
              from |-> IF Len(from) = 0
                       THEN SelectSeq([ i \in DOMAIN states |-> i ], LAMBDA i : i # to)
                       ELSE from]

\* The node of states[i], allocated with add_node when it has none yet.
\* b is the builder state [states, g, ids].
node_of(b, i) ==
    IF b.states[i].node # None THEN b
    ELSE [b EXCEPT !.g.nodes = @ + 1, !.states[i].node = b.g.nodes + 1]

\* The loop over the resolved sources of one transition (state.rs 151-170).
RECURSIVE add_from_edges(_, _, _, _)
add_from_edges(b, to_node, from, k) ==
    IF k > Len(from) THEN b
    ELSE LET b1        == node_of(b, from[k])
             from_node == b1.states[from[k]].node
             edge      == add_edge_id(b1.g)
             b2        == [b1 EXCEPT !.g = add_edge(b1.g, to_node, from_node),
                                     !.ids = Append(@, edge)]
         IN  add_from_edges(b2, to_node, from, k + 1)

\* One iteration of the loop over the transitions (state.rs 136-171):
\* acc is [ok, states, g, edges] with edges the transitions handled so far.
\* A transition that does not resolve is skipped instead of failing.
new_transition_skip(acc, trans) ==
    LET r == get_states_for_transition(acc.states, trans)
    IN  IF ~r.ok THEN acc
        ELSE LET b0 == node_of([states |-> acc.states, g |-> acc.g, ids |-> trans.ids], r.to)
                 b  == add_from_edges(b0, b0.states[r.to].node, r.from, 1)
             IN  [ok     |-> TRUE,
                  states |-> b.states,
                  g      |-> b.g,
                  edges  |-> Append(acc.edges, [trans EXCEPT !.ids = b.ids])]

new_transition(acc, trans) ==
    LET r == get_states_for_transition(acc.states, trans)
    IN  IF ~r.ok THEN [acc EXCEPT !.ok = FALSE]
        ELSE LET b0 == node_of([states |-> acc.states, g |-> acc.g, ids |-> trans.ids], r.to)
                 b  == add_from_edges(b0, b0.states[r.to].node, r.from, 1)
             IN  [ok     |-> TRUE,
                  states |-> b.states,
                  g      |-> b.g,
                  edges  |-> Append(acc.edges, [trans EXCEPT !.ids = b.ids])]

RECURSIVE new_loop(_, _, _)
new_loop(acc, transitions, i) ==
    IF i > Len(transitions) \/ ~acc.ok THEN acc
    ELSE new_loop(new_transition(acc, transitions[i]), transitions, i + 1)

\* StateMachine::new: [ok, sm]; on Err no machine is returned.
NoMachine ==
    [states |-> [graph |-> new_builder, states |-> <<>>, edges |-> <<>>],
     current_state |-> None]

StateMachine_new(states, transitions) ==
    LET acc == new_loop([ok |-> TRUE, states |-> states, g |-> new_builder, edges |-> <<>>],
                        transitions, 1)
    IN  IF ~acc.ok THEN [ok |-> FALSE, sm |-> NoMachine]
        ELSE [ok |-> TRUE,
              sm |-> [states |-> [graph |-> acc.g, states |-> acc.states, edges |-> acc.edges],
                      current_state |-> None]]

-----------------------------------------------------------------------------
(* Queries and line classification (state.rs 187-252).                     *)

\* The triggers listed once per graph edge instead of once per transition.
list_triggers_per_edge(m) ==
    Flatten([ k \in DOMAIN graph_edges(m.states.graph) |->
        Flatten([ i \in DOMAIN m.states.edges |->
            IF ids_contains(m.states.edges[i].ids, graph_edges(m.states.graph)[k])
            THEN SelectSeq(m.states.edges[i].triggers, LAMBDA t : Len(t.sequence) # 0)
            ELSE <<>> ]) ])

\* list_triggers: self.states.edges is the vector of transitions.
list_triggers(m) ==
    Flatten([ i \in DOMAIN m.states.edges |->
                SelectSeq(m.states.edges[i].triggers, LAMBDA t : Len(t.sequence) # 0) ])

\* The edges leaving the current node instead of those entering it.
valid_actions_outgoing(m) ==
    IF m.current_state # None
    THEN SelectSeq(incident_edges(m.states.graph, m.current_state), LAMBDA e : ~is_incoming(e))
    ELSE graph_edges(m.states.graph)

\* The edges list_actions walks (state.rs 195-201).
valid_actions(m) ==
    IF m.current_state # None
    THEN SelectSeq(incident_edges(m.states.graph, m.current_state), is_incoming)
    ELSE graph_edges(m.states.graph)

\* The (transition, action) pairs of the transitions owning edge e
\* (state.rs 205-209); a transition is named by its index in states.edges.
actions_of_edge(m, e) ==
    Flatten([ i \in DOMAIN m.states.edges |->
                IF ids_contains(m.states.edges[i].ids, e)
                THEN [ j \in DOMAIN m.states.edges[i].actions |->
                         [t |-> i, a |-> m.states.edges[i].actions[j]] ]
                ELSE <<>> ])

list_actions(m) ==
    LET valid == valid_actions(m)
    IN  Flatten([ k \in DOMAIN valid |-> actions_of_edge(m, valid[k]) ])

\* The scan does not stop at the first match: the last matching action wins.
RECURSIVE find_new_state_last(_, _, _, _)
find_new_state_last(m, listed, line, i) ==
    IF i > Len(listed) THEN [kind |-> "none", state |-> 0]
    ELSE LET r == action_test(listed[i].a.value, line)
             s == position(m.states.states, m.states.edges[listed[i].t].to)
             later == find_new_state_last(m, listed, line, i + 1)
         IN  IF r = "panic" THEN [kind |-> "panic", state |-> 0]
             ELSE IF later.kind # "none" THEN later
             ELSE IF r = "some" /\ s # 0 THEN [kind |-> "some", state |-> s]
             ELSE later

\* find_map over the listed actions (state.rs 214-227): the first action
\* whose test yields a state; a pattern that does not compile panics when
\* it is reached.
RECURSIVE find_new_state(_, _, _, _)
find_new_state(m, listed, line, i) ==
    IF i > Len(listed) THEN [kind |-> "none", state |-> 0]
    ELSE LET r == action_test(listed[i].a.value, line)
             s == position(m.states.states, m.states.edges[listed[i].t].to)
         IN  IF r = "panic" THEN [kind |-> "panic", state |-> 0]
             ELSE IF r = "some" /\ s # 0 THEN [kind |-> "some", state |-> s]
             ELSE find_new_state(m, listed, line, i + 1)

\* state_transition: the state, unless it has no node.
state_transition(m, s) == IF m.states.states[s].node = None THEN 0 ELSE s

\* The properties are returned but the current state is not updated.
process_line_keep(m, line) ==
    LET new_state == find_new_state(m, list_actions(m), line, 1)
    IN  IF new_state.kind = "panic"
        THEN [kind |-> "panic", some |-> FALSE, props |-> <<>>, sm |-> m]
        ELSE IF new_state.kind = "some" /\ state_transition(m, new_state.state) # 0
        THEN [kind  |-> "return",
              some  |-> TRUE,
              props |-> m.states.states[state_transition(m, new_state.state)].properties,
              sm    |-> m]
        ELSE [kind |-> "return", some |-> FALSE, props |-> <<>>, sm |-> m]

\* A line that matches nothing makes the current state unknown again.
process_line_reset(m, line) ==
    LET new_state == find_new_state(m, list_actions(m), line, 1)
    IN  IF new_state.kind = "panic"
        THEN [kind |-> "panic", some |-> FALSE, props |-> <<>>, sm |-> m]
        ELSE IF new_state.kind = "some" /\ state_transition(m, new_state.state) # 0
        THEN LET state == m.states.states[state_transition(m, new_state.state)]
             IN  [kind  |-> "return",
                  some  |-> TRUE,
                  props |-> state.properties,
                  sm    |-> [m EXCEPT !.current_state = state.node]]
        ELSE [kind |-> "return", some |-> FALSE, props |-> <<>>,
              sm |-> [m EXCEPT !.current_state = None]]

\* process_line: [kind: "panic" or "return", some, props, sm].
process_line(m, line) ==
    LET new_state == find_new_state(m, list_actions(m), line, 1)
    IN  IF new_state.kind = "panic"
        THEN [kind |-> "panic", some |-> FALSE, props |-> <<>>, sm |-> m]
        ELSE IF new_state.kind = "some" /\ state_transition(m, new_state.state) # 0
        THEN LET state == m.states.states[state_transition(m, new_state.state)]
             IN  [kind  |-> "return",
                  some  |-> TRUE,
                  props |-> state.properties,
                  sm    |-> [m EXCEPT !.current_state = state.node]]
        ELSE [kind |-> "return", some |-> FALSE, props |-> <<>>, sm |-> m]

-----------------------------------------------------------------------------
(* The configurations and lines the model draws from.                      *)

Ghost == "Ghost"     \* a name no configuration declares

Baud(n) == [Baud |-> n]

\* The properties of the i-th configured state.
PropsAt(i) ==
    CASE i = 1 -> <<>>
      [] i = 2 -> <<Baud(115200)>>
      [] OTHER -> <<Baud(9600)>>

mk_states(names) ==
    [ i \in DOMAIN names |-> [name |-> names[i], properties |-> PropsAt(i), node |-> None] ]

\* The configured state lists; validate_config lets a repeated name through
\* when the two are not adjacent (config.rs 172-176).
StateLists ==
    { <<"Boot">>, <<"Boot", "Ready">>, <<"Boot", "Ready", "Fault">>,
      <<"Boot", "Ready", "Boot">> }

READY       == <<"R", "E", "A", "D", "Y">>
boot        == <<"b", "o", "o", "t">>
RegexERR    == <<"^", "E", "R", "R">>
RegexBroken == <<"^", "(">>

LineBooting == <<"b", "o", "o", "t", "i", "n", "g">>
LineStill   == <<"s", "t", "i", "l", "l", " ">> \o LineBooting
LineREADY   == READY
LineERR     == <<"x", "E", "R", "R", " ">> \o READY

MainLines == { LineBooting, LineStill, LineREADY, LineERR }

mk_action(value) == [source |-> "UART", event |-> "line", value |-> value]

DocTrigger   == [name |-> "manual", sequence |-> <<>>]
PressTrigger == [name |-> "power", sequence |-> <<[control |-> "power_button", action |-> "Press"]>>]
HoldTrigger  == [name |-> "reset",
                 sequence |-> <<[control |-> "reset_button", action |-> "Hold"],
                                [control |-> "reset_button", action |-> "Release"]>>]

\* What a transition carries besides its endpoints: the patterns that
\* recognise its target state and the triggers that lead there.
ActionsInto(to) ==
    CASE to = "Boot"  -> <<mk_action(boot)>>
      [] to = "Ready" -> <<mk_action(READY)>>
      [] OTHER        -> <<mk_action(RegexERR), mk_action(READY)>>

TriggersInto(to) ==
    CASE to = "Boot"  -> <<HoldTrigger>>
      [] to = "Ready" -> <<DocTrigger, PressTrigger>>
      [] OTHER        -> <<DocTrigger>>

\* The `from` lists over the declared names: empty, one name, two names.
FromChoices(names) ==
    { <<>> } \cup { <<names[i]>> : i \in DOMAIN names }
             \cup { <<names[p[1]], names[p[2]]>> :
                        p \in { q \in (DOMAIN names) \X (DOMAIN names) : q[1] < q[2] } }

\* The endpoints of a transition: declared names, or one undeclared name.
Shapes(names) ==
    { [to |-> names[i], from |-> f] : i \in DOMAIN names, f \in FromChoices(names) }
        \cup { [to |-> Ghost, from |-> <<>>], [to |-> names[1], from |-> <<Ghost>>] }

Transitions(names) ==
    { [to |-> sh.to, from |-> sh.from, actions |-> ActionsInto(sh.to),
       triggers |-> TriggersInto(sh.to), ids |-> <<>>] : sh \in Shapes(names) }

\* The action values and lines of the matching specification.
ValueChars == { "^", "E", "R" }
LineChars  == { "E", "R", "x" }

MatchValues ==
    SeqsUpTo(ValueChars, MaxValueLen)
        \cup { RegexBroken, <<"^", "E", ".", "R">>, <<"^", "R", "$">>, <<"E", ".">> }

MatchLines == SeqsUpTo(LineChars, MaxLineLen)

-----------------------------------------------------------------------------
(* The state machine's life: construction, then calls in any order.        *)

NoRet == [op |-> "none", line |-> <<>>, before |-> None, some |-> FALSE,
          props |-> <<>>, triggers |-> <<>>]

\* No supervisor has been asked for: the engine is used on its own.
NoPc == [main |-> "idle", conn |-> [at |-> "idle"], event |-> "idle", ctrl |-> "idle",
         act |-> <<>>]

NoEnv == [present |-> {}, wire |-> <<>>, emitted |-> 0, created |-> 0]

NoLog == [iters |-> 0, why |-> "none", read |-> <<>>, recv |-> <<>>,
          entered |-> <<>>, batches |-> <<>>, baud |-> <<>>, creates |-> <<>>, reopens |-> <<>>]

NoSupervisor ==
    /\ c_info = <<>>
    /\ connections = <<>>
    /\ inotify = [watches |-> {}, events |-> <<>>]
    /\ rx = <<>>
    /\ prx = <<>>
    /\ pc = NoPc
    /\ env = NoEnv
    /\ log = NoLog

\* Any configuration of at most MaxTrans transitions, fed the main lines.
Init ==
    /\ \E names \in StateLists : \E n \in 0..MaxTrans :
         \E ts \in [1..n -> Transitions(names)] :
            device = [states |-> mk_states(names), transitions |-> ts]
    /\ inputs = MainLines
    /\ sm = NoMachine
    /\ phase = "config"
    /\ ret = NoRet
    /\ NoSupervisor

\* main: StateMachine::new(device.states, device.transitions).
New ==
    /\ phase = "config"
    /\ LET r == StateMachine_new(device.states, device.transitions)
       IN  /\ sm' = r.sm
           /\ phase' = IF r.ok THEN "built" ELSE "error"
    /\ ret' = [NoRet EXCEPT !.op = "new"]
    /\ UNCHANGED <<device, inputs>>
    /\ UNCHANGED connvars

\* main: the triggers are listed once, right after construction.
ListTriggers ==
    /\ phase = "built"
    /\ ret' = [NoRet EXCEPT !.op = "list_triggers", !.before = sm.current_state,
                            !.triggers = list_triggers(sm)]
    /\ phase' = "ready"
    /\ UNCHANGED <<device, sm, inputs>>
    /\ UNCHANGED connvars

ProcessLine ==
    /\ phase = "ready"
    /\ \E line \in inputs :
         LET r == process_line(sm, line)
         IN  /\ sm' = r.sm
             /\ phase' = IF r.kind = "panic" THEN "panicked" ELSE "ready"
             /\ ret' = [NoRet EXCEPT !.op = "process_line", !.line = line,
                                     !.before = sm.current_state,
                                     !.some = r.some, !.props = r.props]
    /\ UNCHANGED <<device, inputs>>
    /\ UNCHANGED connvars

Next == New \/ ListTriggers \/ ProcessLine

Spec == Init /\ [][Next]_vars

\* One wildcard transition with a single action of any generated value, and
\* a device that emits one generated line: the pattern test of process_line
\* on its own.
InitMatch ==
    /\ \E value \in MatchValues :
         device = [states |-> mk_states(<<"Boot", "Ready">>),
                   transitions |-> <<[to |-> "Ready", from |-> <<>>,
                                      actions |-> <<mk_action(value)>>,
                                      triggers |-> <<>>, ids |-> <<>>]>>]
    /\ \E line \in MatchLines : inputs = { line }
    /\ sm = NoMachine
    /\ phase = "config"
    /\ ret = NoRet
    /\ NoSupervisor

SpecMatch == InitMatch /\ [][Next]_vars

-----------------------------------------------------------------------------
(* The connection supervisor: construction (connections/mod.rs).           *)

MaxConns == 2        \* connection descriptors in a configuration
MaxHandles == 3      \* handles Connections::new is followed up to

\* A path is the sequence of its components.
TtyUSB0 == <<"/", "dev", "ttyUSB0">>
TtyUSB1 == <<"/", "dev", "ttyUSB1">>
TtyRel  == <<"ttyUSB0">>          \* relative to the working directory

DevicePaths == { TtyUSB0, TtyUSB1, TtyRel }

\* The directories that exist; the empty path names nothing.
Dirs == { <<"/">>, <<"/", "dev">> }

\* Path::parent.
parent(path) ==
    IF path = <<>> \/ path = <<"/">> THEN [some |-> FALSE, path |-> <<>>]
    ELSE [some |-> TRUE, path |-> SubSeq(path, 1, Len(path) - 1)]

exists(dir) == dir \in Dirs

\* Connections::new: the nearest existing ancestor of dir, or the last
\* ancestor tried when none exists.
RECURSIVE watch_dir(_)
watch_dir(dir) ==
    IF exists(dir) THEN dir
    ELSE IF parent(dir).some THEN watch_dir(parent(dir).path)
    ELSE dir

\* Inotify::add_watch fails on a path that does not exist.
add_watch_ok(dir) == exists(dir)

SerialInfo(label, path) == [kind |-> "Serial", label |-> label, path |-> path, baud |-> 115200]
SshInfo == [kind |-> "Ssh", label |-> "SSH"]
UsbInfo == [kind |-> "Usb", label |-> "USB"]

Descriptors ==
    { SerialInfo("UART", TtyUSB0), SerialInfo("AUX", TtyUSB1), SerialInfo("REL", TtyRel),
      SshInfo, UsbInfo }

\* What the two opens of Serial::new can do: a device file that is not
\* there does not open; one that is there opens, or either open fails.
OpenOutcomes(path) ==
    IF path \in env.present THEN { "ok", "open_failed", "raw_failed" } ELSE { "open_failed" }

\* Nobody holds the lock.
NoHolder == "none"

\* SerialControl { port: Arc<Mutex<TTYPort>> }: the lock's holder and the
\* settings of the raw port it guards.
SerialControl_new(info) ==
    [port |-> [holder |-> NoHolder, dtr |-> TRUE, rts |-> TRUE, baud |-> info.baud]]

\* The handle Serial::new returns: Serial { info, ctrl, .. }.
Serial(info) == [info |-> info, ctrl |-> SerialControl_new(info)]

\* Serial::new: OpenFailed when the stream does not open, a panic when the
\* raw control port does not (unwrap), else the handle.
Serial_new(info, outcome) ==
    IF outcome = "open_failed" THEN [kind |-> "err", serial |-> Serial(info)]
    ELSE IF outcome = "raw_failed" THEN [kind |-> "panic", serial |-> Serial(info)]
    ELSE [kind |-> "ok", serial |-> Serial(info)]

\* Connections::new, `c_info.iter_mut().next()`: a new iterator every time
\* round the loop, so the first descriptor, if there is one.
new_next_info(infos) ==
    IF infos # <<>> THEN [some |-> TRUE, info |-> infos[1]]
    ELSE [some |-> FALSE, info |-> SshInfo]

\* Connections::new, the body of the loop for a serial descriptor: what
\* main_loop is left with.  The vector is local: nothing of it is returned
\* on failure.
new_serial(conns, watches, info, outcome) ==
    LET r == Serial_new(info, outcome)
        dir == watch_dir(parent(info.path).path)
    IN  IF r.kind = "panic"
        THEN [main |-> "panicked", why |-> "raw open", connections |-> <<>>, watches |-> {}]
        ELSE IF r.kind = "err"
        THEN [main |-> "new_err", why |-> "OpenFailed", connections |-> <<>>, watches |-> {}]
        ELSE IF ~add_watch_ok(dir)
        THEN [main |-> "new_err", why |-> "add_watch", connections |-> <<>>, watches |-> {}]
        ELSE [main |-> "new", why |-> "none",
              connections |-> Append(conns, r.serial), watches |-> watches \cup {dir}]

\* The engine's variables while only the supervisor is looked at.
NoEngine ==
    /\ device = [states |-> <<>>, transitions |-> <<>>]
    /\ inputs = {}
    /\ sm = NoMachine
    /\ phase = "config"
    /\ ret = NoRet

\* main_loop calls Connections::new with any descriptors, in any world.
InitNew ==
    /\ NoEngine
    /\ c_info \in SeqsUpTo(Descriptors, MaxConns)
    /\ connections = <<>>
    /\ inotify = [watches |-> {}, events |-> <<>>]
    /\ rx = <<>>
    /\ prx = <<>>
    /\ pc = [NoPc EXCEPT !.main = "new"]
    /\ \E present \in SUBSET DevicePaths : env = [NoEnv EXCEPT !.present = present]
    /\ log = NoLog

\* One turn of the loop of Connections::new.
ConnectionsNewLoop ==
    /\ pc.main = "new"
    /\ new_next_info(c_info).some
    /\ Len(connections) < MaxHandles
    /\ LET info == new_next_info(c_info).info
       IN  IF info.kind = "Serial"
           THEN \E outcome \in OpenOutcomes(info.path) :
                  LET r == new_serial(connections, inotify.watches, info, outcome)
                  IN  /\ connections' = r.connections
                      /\ inotify' = [inotify EXCEPT !.watches = r.watches]
                      /\ pc' = [pc EXCEPT !.main = r.main]
                      /\ log' = [log EXCEPT !.iters = @ + 1, !.why = r.why]
           ELSE /\ connections' = <<>>
                /\ inotify' = [inotify EXCEPT !.watches = {}]
                /\ pc' = [pc EXCEPT !.main = "panicked"]
                /\ log' = [log EXCEPT !.iters = @ + 1, !.why = "unimplemented"]
    /\ UNCHANGED <<device, sm, phase, inputs, ret, c_info, rx, prx, env>>

\* Connections::new returns the supervisor when the loop ends.
ConnectionsNewReturn ==
    /\ pc.main = "new"
    /\ ~new_next_info(c_info).some
    /\ pc' = [pc EXCEPT !.main = "new_ok"]
    /\ UNCHANGED <<device, sm, phase, inputs, ret, c_info, connections, inotify, rx, prx, env, log>>

NextNew == ConnectionsNewLoop \/ ConnectionsNewReturn

SpecNew == InitNew /\ [][NextNew]_vars

-----------------------------------------------------------------------------
(* The supervisor at work: Connections::poll, Serial::read and the tasks   *)
(* of main_loop (lib.rs 73-85), over a supervisor that holds one handle    *)
(* per serial descriptor.                                                  *)

MaxEmit == 2         \* lines the devices send in a run
MaxCreates == 1      \* files created in the watched directory in a run

BroadcastCap == 8    \* channel::<Vec<Property>>(8)

mk_trans(to, from) ==
    [to |-> to, from |-> from, actions |-> ActionsInto(to),
     triggers |-> TriggersInto(to), ids |-> <<>>]

\* Fault (baud 9600) is entered from anywhere on ERR or READY, Ready (baud
\* 115200) from Fault on READY.
RunDevice ==
    [states |-> mk_states(<<"Boot", "Ready", "Fault">>),
     transitions |-> << mk_trans("Fault", <<>>), mk_trans("Ready", <<"Fault">>) >>]

\* The same with a transition whose pattern does not compile.
RunDeviceBroken ==
    [RunDevice EXCEPT !.transitions =
        Append(@, [mk_trans("Boot", <<"Ready">>) EXCEPT !.actions = <<mk_action(RegexBroken)>>])]

RunLines == { LineBooting, LineERR, LineREADY }

\* The names of the files that appear in the watched directory.
CreatedNames == { <<"ttyUSB0">>, <<"ttyUSB1">>, <<"lock">> }

Handles == DOMAIN connections

\* Serial::read: the event a line is sent as.  `origin` is not part of the
\* event: it remembers the handle that read the line.
NewLineEvent(line, h) ==
    [device |-> "device:axolotl", kind |-> "NewLine", event |-> line, origin |-> h]

\* A ConnectionEvent::Bytes event, which conn_event only traces.
BytesEvent(bytes, h) ==
    [device |-> "device:axolotl", kind |-> "Bytes", event |-> bytes, origin |-> h]

\* The newest event is handed over first.
rx_recv_newest(q) == [event |-> q[Len(q)], rest |-> SubSeq(q, 1, Len(q) - 1)]

\* UnboundedSender::send and UnboundedReceiver::recv: first in, first out.
tx_send(q, ev) == Append(q, ev)

rx_recv(q) == [event |-> Head(q), rest |-> Tail(q)]

\* broadcast::Sender::send: a receiver that is BroadcastCap batches behind
\* loses the oldest.
ptx_send(q, props) ==
    IF Len(q) >= BroadcastCap THEN Append(Tail(q), props) ELSE Append(q, props)

\* Serial::read, `if run_until > now { break }` after a line was sent.
read_breaks(expired) == ~expired

\* Connections::poll: where the read duty goes when the read of handle i
\* has returned.
after_read(i) ==
    IF i < Len(connections) THEN [at |-> "read", i |-> i + 1, expired |-> FALSE]
    ELSE [at |-> "inotify"]

\* Connections::poll: the handle a create event is for, 0 when the name is
\* not the path of a configured serial connection.  The name of an inotify
\* event is the file's name within the watched directory.
poll_event_handle(infos, conns, name) ==
    LET found == { i \in DOMAIN infos : infos[i].kind = "Serial" /\ infos[i].path = name }
    IN  IF found = {} THEN 0
        ELSE LET info == infos[CHOOSE i \in found : \A j \in found : i <= j]
                 hs == { h \in DOMAIN conns : conns[h].info.label = info.label }
             IN  CHOOSE h \in hs : \A g \in hs : h <= g

\* The batches a line makes the dispatch loop send are not sent.
conn_event_silent(m, ev) ==
    IF ev.kind = "NewLine"
    THEN LET r == process_line(m, ev.event)
         IN  [kind |-> r.kind, sm |-> r.sm, sent |-> <<>>]
    ELSE [kind |-> "return", sm |-> m, sent |-> <<>>]

\* A batch is sent for every line, empty when process_line returned nothing.
conn_event_always(m, ev) ==
    IF ev.kind = "NewLine"
    THEN LET r == process_line(m, ev.event)
         IN  [kind |-> r.kind, sm |-> r.sm,
              sent |-> IF r.kind = "return" THEN <<r.props>> ELSE <<>>]
    ELSE [kind |-> "return", sm |-> m, sent |-> <<>>]

\* conn_event: a line goes to process_line and the properties it returns are
\* sent; bytes are traced.
conn_event(m, ev) ==
    IF ev.kind = "NewLine"
    THEN LET r == process_line(m, ev.event)
         IN  [kind |-> r.kind, sm |-> r.sm, sent |-> IF r.some THEN <<r.props>> ELSE <<>>]
    ELSE [kind |-> "return", sm |-> m, sent |-> <<>>]

\* The control duty: the baud rates of a batch, in order, each handed to
\* SerialControl::action(Baud).
control_baud(batch) ==
    LET bauds == SelectSeq(batch, LAMBDA prop : "Baud" \in DOMAIN prop)
    IN  [ i \in DOMAIN bauds |-> bauds[i].Baud ]

\* main_loop at line 73: the machine is built, the supervisor holds a handle
\* for each of one or two serial connections and watches their directory.
InitRun ==
    /\ device \in { RunDevice, RunDeviceBroken }
    /\ inputs = RunLines
    /\ sm = StateMachine_new(device.states, device.transitions).sm
    /\ phase = "ready"
    /\ ret = NoRet
    /\ c_info \in { <<SerialInfo("UART", TtyUSB0)>>,
                    <<SerialInfo("UART", TtyUSB0), SerialInfo("AUX", TtyUSB1)>> }
    /\ connections = [ i \in DOMAIN c_info |-> Serial(c_info[i]) ]
    /\ inotify = [watches |-> { <<"/", "dev">> }, events |-> <<>>]
    /\ rx = <<>>
    /\ prx = <<>>
    /\ pc = [main |-> "join", conn |-> [at |-> "read", i |-> 1, expired |-> FALSE],
             event |-> "recv", ctrl |-> "recv", act |-> <<>>]
    /\ env = [present |-> { c_info[i].path : i \in DOMAIN c_info },
              wire |-> [ i \in DOMAIN c_info |-> [pending |-> <<>>, status |-> "open"] ],
              emitted |-> 0, created |-> 0]
    /\ log = [NoLog EXCEPT !.read = [ i \in DOMAIN c_info |-> <<>> ],
                           !.recv = [ i \in DOMAIN c_info |-> <<>> ],
                           !.reopens = [ i \in DOMAIN c_info |-> 0 ]]

\* Serial::read: try_next yields a line, which is sent on the event channel
\* (unwrap: a panic once the receiver is gone); the loop is left when the
\* 100 ms have not passed yet.
SerialReadLine ==
    /\ pc.conn.at = "read"
    /\ LET h == pc.conn.i
           w == env.wire[h]
       IN  /\ w.pending # <<>>
           /\ env' = [env EXCEPT !.wire[h].pending = Tail(@)]
           /\ log' = [log EXCEPT !.read[h] = Append(@, Head(w.pending))]
           /\ IF pc.event = "panicked"
              THEN /\ rx' = rx
                   /\ pc' = [pc EXCEPT !.conn = [at |-> "panicked"], !.main = "panicked"]
              ELSE /\ rx' = tx_send(rx, NewLineEvent(Head(w.pending), h))
                   /\ pc' = [pc EXCEPT !.conn =
                                IF read_breaks(pc.conn.expired) THEN after_read(h) ELSE @]
    /\ UNCHANGED <<device, sm, phase, inputs, ret, c_info, connections, inotify, prx>>

\* Serial::read: the stream has ended, try_next yields Ok(None) and the loop
\* goes round.
SerialReadNone ==
    /\ pc.conn.at = "read"
    /\ env.wire[pc.conn.i].pending = <<>>
    /\ env.wire[pc.conn.i].status = "eof"
    /\ UNCHANGED vars

\* Serial::read: try_next yields an error, which ends the loop.
SerialReadErr ==
    /\ pc.conn.at = "read"
    /\ env.wire[pc.conn.i].pending = <<>>
    /\ env.wire[pc.conn.i].status = "error"
    /\ pc' = [pc EXCEPT !.conn = after_read(pc.conn.i)]
    /\ UNCHANGED <<device, sm, phase, inputs, ret, c_info, connections, inotify, rx, prx, env, log>>

\* Connections::poll: read_events has nothing (WouldBlock), and is called
\* again.
InotifyWouldBlock ==
    /\ pc.conn.at = "inotify"
    /\ inotify.events = <<>>
    /\ UNCHANGED vars

\* Connections::poll: read_events returns the events that have arrived.
InotifyRead ==
    /\ pc.conn.at = "inotify"
    /\ inotify.events # <<>>
    /\ pc' = [pc EXCEPT !.conn = [at |-> "events", batch |-> inotify.events]]
    /\ inotify' = [inotify EXCEPT !.events = <<>>]
    /\ UNCHANGED <<device, sm, phase, inputs, ret, c_info, connections, rx, prx, env, log>>

\* Connections::poll: one create event.  The handle of the connection whose
\* path is the event's name is reopened, and a failed reopen ends poll with
\* the error; any other name is logged.
PollEvent ==
    /\ pc.conn.at = "events"
    /\ pc.conn.batch # <<>>
    /\ LET name == Head(pc.conn.batch).name
           h == poll_event_handle(c_info, connections, name)
       IN  IF h = 0
           THEN /\ pc' = [pc EXCEPT !.conn.batch = Tail(@)]
                /\ log' = [log EXCEPT !.creates = Append(@, name)]
           ELSE \E ok \in BOOLEAN :
                  /\ pc' = [pc EXCEPT !.conn =
                               IF ok THEN [at |-> "events", batch |-> Tail(pc.conn.batch)]
                               ELSE [at |-> "done", result |-> "err"]]
                  /\ log' = [log EXCEPT !.creates = Append(@, name), !.reopens[h] = @ + 1]
    /\ UNCHANGED <<device, sm, phase, inputs, ret, c_info, connections, inotify, rx, prx, env>>

\* Connections::poll returns Ok(()) after the events.
PollReturn ==
    /\ pc.conn.at = "events"
    /\ pc.conn.batch = <<>>
    /\ pc' = [pc EXCEPT !.conn = [at |-> "done", result |-> "ok"]]
    /\ UNCHANGED <<device, sm, phase, inputs, ret, c_info, connections, inotify, rx, prx, env, log>>

\* A device sends a line.
DeviceSends ==
    /\ env.emitted < MaxEmit
    /\ \E h \in Handles, line \in inputs :
         /\ env.wire[h].status = "open"
         /\ env' = [env EXCEPT !.wire[h].pending = Append(@, line), !.emitted = @ + 1]
    /\ UNCHANGED <<device, sm, phase, inputs, ret, c_info, connections, inotify, rx, prx, pc, log>>

\* A device goes away: its stream ends, or fails.
DeviceGone ==
    /\ \E h \in Handles, how \in { "eof", "error" } :
         /\ env.wire[h].status = "open"
         /\ env' = [env EXCEPT !.wire[h].status = how]
    /\ UNCHANGED <<device, sm, phase, inputs, ret, c_info, connections, inotify, rx, prx, pc, log>>

\* The 100 ms of the read in progress pass.
Tick ==
    /\ pc.conn.at = "read"
    /\ ~pc.conn.expired
    /\ pc' = [pc EXCEPT !.conn.expired = TRUE]
    /\ UNCHANGED <<device, sm, phase, inputs, ret, c_info, connections, inotify, rx, prx, env, log>>

\* A file is created in the watched directory.
FileCreated ==
    /\ env.created < MaxCreates
    /\ inotify.watches # {}
    /\ \E name \in CreatedNames :
         inotify' = [inotify EXCEPT !.events = Append(@, [name |-> name])]
    /\ env' = [env EXCEPT !.created = @ + 1]
    /\ UNCHANGED <<device, sm, phase, inputs, ret, c_info, connections, rx, prx, pc, log>>

\* main_loop, the event task: recv, then process_event.  A panic of
\* process_line ends the task.
Dispatch ==
    /\ pc.event = "recv"
    /\ rx # <<>>
    /\ LET ev == rx_recv(rx).event
           r == conn_event(sm, ev)
       IN  /\ rx' = rx_recv(rx).rest
           /\ log' = [log EXCEPT !.recv[ev.origin] = Append(@, ev.event),
                                 !.entered = IF /\ ev.kind = "NewLine"
                                                /\ process_line(sm, ev.event).some
                                             THEN Append(@, process_line(sm, ev.event).props)
                                             ELSE @,
                                 !.batches = @ \o r.sent]
           /\ IF r.kind = "panic"
              THEN /\ pc' = [pc EXCEPT !.event = "panicked"]
                   /\ UNCHANGED <<sm, prx>>
              ELSE /\ sm' = r.sm
                   /\ prx' = IF r.sent # <<>> THEN ptx_send(prx, r.sent[1]) ELSE prx
                   /\ pc' = pc
    /\ UNCHANGED <<device, phase, inputs, ret, c_info, connections, inotify, env>>

\* The control duty: a batch is received and its baud rates are applied.
ControlDuty ==
    /\ pc.ctrl = "recv"
    /\ prx # <<>>
    /\ log' = [log EXCEPT !.baud = @ \o control_baud(Head(prx))]
    /\ prx' = Tail(prx)
    /\ UNCHANGED <<device, sm, phase, inputs, ret, c_info, connections, inotify, rx, pc, env>>

\* main_loop: join! is over when both tasks are, and Ok(()) is returned.
MainLoopReturn ==
    /\ pc.main = "join"
    /\ pc.conn.at = "done"
    /\ pc.event = "panicked"
    /\ pc' = [pc EXCEPT !.main = "returned_ok"]
    /\ UNCHANGED <<device, sm, phase, inputs, ret, c_info, connections, inotify, rx, prx, env, log>>

\* The steps of the read duty that do something.
ReadDuty == SerialReadLine \/ SerialReadErr \/ InotifyRead \/ PollEvent \/ PollReturn

NextRun ==
    \/ SerialReadLine \/ SerialReadNone \/ SerialReadErr
    \/ InotifyWouldBlock \/ InotifyRead \/ PollEvent \/ PollReturn
    \/ DeviceSends \/ DeviceGone \/ Tick \/ FileCreated
    \/ Dispatch \/ ControlDuty \/ MainLoopReturn

SpecRun == InitRun /\ [][NextRun]_vars

\* The event task has an event to receive.
CanDispatch == pc.event = "recv" /\ rx # <<>>

\* The tasks are scheduled fairly: a task that can take a step takes one.
\* For the event task this is WF_vars(Dispatch) with ENABLED <<Dispatch>>_vars
\* written out.  The devices and the directory owe nothing.
SpecRunFair ==
    /\ SpecRun
    /\ WF_vars(ReadDuty) /\ WF_vars(ControlDuty) /\ WF_vars(MainLoopReturn)
    /\ ([]<>~CanDispatch \/ []<><<Dispatch>>_vars)

-----------------------------------------------------------------------------
(* The dispatch loop on its own (lib.rs 35-54, 75-81): the events of either *)
(* kind that wait in the channel are received and handled one by one.      *)

MaxQueued == 3       \* events waiting in the channel

\* Bytes that, taken for a line, would match the pattern of RegexERR.
BytesERR == <<"E", "R", "R">>

DispatchEvents == { NewLineEvent(line, 1) : line \in RunLines } \cup { BytesEvent(BytesERR, 1) }

\* poll has returned; the channel holds what one handle has sent.
InitDispatch ==
    /\ device \in { RunDevice, RunDeviceBroken }
    /\ inputs = RunLines
    /\ sm = StateMachine_new(device.states, device.transitions).sm
    /\ phase = "ready"
    /\ ret = NoRet
    /\ c_info = <<SerialInfo("UART", TtyUSB0)>>
    /\ connections = [ i \in DOMAIN c_info |-> Serial(c_info[i]) ]
    /\ inotify = [watches |-> { <<"/", "dev">> }, events |-> <<>>]
    /\ rx \in SeqsUpTo(DispatchEvents, MaxQueued)
    /\ prx = <<>>
    /\ pc = [main |-> "join", conn |-> [at |-> "done", result |-> "ok"],
             event |-> "recv", ctrl |-> "recv", act |-> <<>>]
    /\ env = [present |-> { TtyUSB0 },
              wire |-> [ i \in DOMAIN c_info |-> [pending |-> <<>>, status |-> "open"] ],
              emitted |-> 0, created |-> 0]
    /\ log = [NoLog EXCEPT !.read = [ i \in DOMAIN c_info |-> [ k \in DOMAIN rx |-> rx[k].event ] ],
                           !.recv = [ i \in DOMAIN c_info |-> <<>> ],
                           !.reopens = [ i \in DOMAIN c_info |-> 0 ]]

NextDispatch == Dispatch \/ ControlDuty \/ MainLoopReturn

SpecDispatch == InitDispatch /\ [][NextDispatch]_vars

-----------------------------------------------------------------------------
(* The control half of a handle (serial.rs 27-42, 102-106): the callers of *)
(* SerialControl::action, next to the read of the same handle.             *)

MaxCalls == 2        \* baud changes the control duty asks for

Dtr(state) == [op |-> "Dtr", arg |-> state]
Rts(state) == [op |-> "Rts", arg |-> state]
SetBaud(baud) == [op |-> "Baud", arg |-> baud]

\* main_loop lowers the lines (lib.rs 60-63); the control duty sets bauds.
Callers == { "bootstrap", "control" }

\* Mutex::lock and the drop of its guard.
mutex_lock(port, c) == [port EXCEPT !.holder = c]

mutex_unlock(port) == [port EXCEPT !.holder = NoHolder]

\* The hardware call of SerialControl::action on the locked port.
port_write(port, action, outcome) ==
    IF outcome = "err" THEN port
    ELSE CASE action.op = "Dtr" -> [port EXCEPT !.dtr = action.arg]
           [] action.op = "Rts" -> [port EXCEPT !.rts = action.arg]
           [] OTHER             -> [port EXCEPT !.baud = action.arg]

\* The guard is dropped only when the call succeeded.
action_exit_leak(port, outcome) == IF outcome = "err" THEN port ELSE mutex_unlock(port)

\* SerialControl::action returns, by `?` or by Ok(()): the guard goes out of
\* scope either way.
action_exit(port, outcome) == mutex_unlock(port)

\* main_loop, `s.action(..).await?`: an error ends main_loop, else the next
\* line is lowered.
after_action_main(todo, outcome) ==
    IF outcome = "err" THEN "failed"
    ELSE IF todo = <<>> THEN "done"
    ELSE "lock"

\* The control duty logs a failure and goes on to the next property.
after_action_control(todo, outcome) == IF todo = <<>> THEN "done" ELSE "lock"

after_action(c, todo, outcome) ==
    IF c = "bootstrap" THEN after_action_main(todo, outcome)
    ELSE after_action_control(todo, outcome)

\* One handle, its device about to send lines, both callers about to call.
InitCtrl ==
    /\ device = RunDevice
    /\ inputs = RunLines
    /\ sm = StateMachine_new(device.states, device.transitions).sm
    /\ phase = "ready"
    /\ ret = NoRet
    /\ c_info = <<SerialInfo("UART", TtyUSB0)>>
    /\ connections = [ i \in DOMAIN c_info |-> Serial(c_info[i]) ]
    /\ inotify = [watches |-> { <<"/", "dev">> }, events |-> <<>>]
    /\ rx = <<>>
    /\ prx = <<>>
    /\ \E bauds \in SeqsUpTo({ SetBaud(9600), SetBaud(115200) }, MaxCalls) :
         pc = [main |-> "join", conn |-> [at |-> "read", i |-> 1, expired |-> FALSE],
               event |-> "recv", ctrl |-> "recv",
               act |-> [ c \in Callers |->
                          LET todo == IF c = "bootstrap" THEN <<Dtr(FALSE), Rts(FALSE)>> ELSE bauds
                          IN  [at |-> IF todo = <<>> THEN "done" ELSE "lock",
                               todo |-> todo, outcome |-> "none"] ]]
    /\ env = [present |-> { TtyUSB0 },
              wire |-> [ i \in DOMAIN c_info |-> [pending |-> <<>>, status |-> "open"] ],
              emitted |-> 0, created |-> 0]
    /\ log = [NoLog EXCEPT !.read = [ i \in DOMAIN c_info |-> <<>> ],
                           !.recv = [ i \in DOMAIN c_info |-> <<>> ],
                           !.reopens = [ i \in DOMAIN c_info |-> 0 ]]

\* SerialControl::action, `self.port.lock().unwrap()`: the caller waits
\* until the lock is free and takes it.
SerialControlLock ==
    /\ \E c \in DOMAIN pc.act :
         /\ pc.act[c].at = "lock"
         /\ connections[1].ctrl.port.holder = NoHolder
         /\ connections' = [connections EXCEPT ![1].ctrl.port = mutex_lock(@, c)]
         /\ pc' = [pc EXCEPT !.act[c].at = "call"]
    /\ UNCHANGED <<device, sm, phase, inputs, ret, c_info, inotify, rx, prx, env, log>>

\* SerialControl::action, the match: one hardware call, which succeeds or
\* fails.
SerialControlCall ==
    /\ \E c \in DOMAIN pc.act : \E outcome \in { "ok", "err" } :
         /\ pc.act[c].at = "call"
         /\ connections' = [connections EXCEPT
                               ![1].ctrl.port = port_write(@, Head(pc.act[c].todo), outcome)]
         /\ pc' = [pc EXCEPT !.act[c].at = "exit", !.act[c].outcome = outcome]
    /\ UNCHANGED <<device, sm, phase, inputs, ret, c_info, inotify, rx, prx, env, log>>

\* SerialControl::action returns to its caller.
SerialControlReturn ==
    /\ \E c \in DOMAIN pc.act :
         /\ pc.act[c].at = "exit"
         /\ connections' = [connections EXCEPT
                               ![1].ctrl.port = action_exit(@, pc.act[c].outcome)]
         /\ pc' = [pc EXCEPT !.act[c].todo = Tail(@),
                             !.act[c].at = after_action(c, Tail(pc.act[c].todo),
                                                        pc.act[c].outcome)]
    /\ UNCHANGED <<device, sm, phase, inputs, ret, c_info, inotify, rx, prx, env, log>>

ControlCallers == SerialControlLock \/ SerialControlCall \/ SerialControlReturn

NextCtrl ==
    \/ SerialControlLock \/ SerialControlCall \/ SerialControlReturn
    \/ DeviceSends \/ SerialReadLine \/ Tick \/ InotifyWouldBlock

SpecCtrl == InitCtrl /\ [][NextCtrl]_vars

-----------------------------------------------------------------------------
(* Loading the configuration (config.rs 171-214), then building the        *)
(* machine from it as main does.                                           *)

MaxStates == 3       \* states in a configuration file
MaxLoadTrans == 3    \* transitions in a configuration file

\* Vec::dedup_by_key and Vec::dedup_by, on the keys of the elements: an
\* element is removed when its key is that of the element kept before it,
\* so only runs of neighbours are reduced.
RECURSIVE dedup(_)
dedup(keys) ==
    IF Len(keys) <= 1 THEN keys
    ELSE LET kept == dedup(SubSeq(keys, 1, Len(keys) - 1))
         IN  IF keys[Len(keys)] = kept[Len(kept)] THEN kept
             ELSE Append(kept, keys[Len(keys)])

\* `|s| s.name.clone()` and `|a, b| a.from == b.from && a.to == b.to`.
name_key(state) == state.name

from_to_key(trans) == <<trans.from, trans.to>>

\* The labels of the configured connections.
connection_labels(config) == { config.connections[i].label : i \in DOMAIN config.connections }

\* validate_config: "ok", or the error it returns.
validate_config(config) ==
    IF Len(dedup([ i \in DOMAIN config.states |-> name_key(config.states[i]) ]))
           # Len(config.states)
    THEN "Duplicate state names found"
    ELSE IF Len(dedup([ i \in DOMAIN config.transitions |-> from_to_key(config.transitions[i]) ]))
                # Len(config.transitions)
    THEN "Duplicate transition names found"
    ELSE IF \E i \in DOMAIN config.controls :
                config.controls[i].connection \notin connection_labels(config)
    THEN "Control references non-existent connection"
    ELSE "ok"

\* load_config, the pass over the triggers: a trigger without `from` takes
\* its transition's, and every trigger takes its transition's `to`.
backfill(trans) ==
    [trans EXCEPT !.triggers =
        [ k \in DOMAIN trans.triggers |->
            [name     |-> trans.triggers[k].name,
             sequence |-> trans.triggers[k].sequence,
             from     |-> IF trans.triggers[k].from = <<>> THEN trans.from
                          ELSE trans.triggers[k].from,
             to       |-> trans.to] ]]

\* load_config on a file that was read and parsed: [ok, device].
load_config(config) ==
    LET filled == [config EXCEPT !.transitions = [ i \in DOMAIN @ |-> backfill(@[i]) ]]
    IN  [ok |-> validate_config(filled) = "ok", why |-> validate_config(filled),
         device |-> filled]

\* A trigger as it is parsed: `to` is skipped, `from` may be left out.
parsed_trigger(t, from) == [name |-> t.name, sequence |-> t.sequence, from |-> from, to |-> ""]

LoadTransitions ==
    { [mk_trans("Ready", <<"Boot">>) EXCEPT
          !.triggers = <<parsed_trigger(DocTrigger, <<>>), parsed_trigger(PressTrigger, <<"Boot">>)>>],
      [mk_trans("Boot", <<>>) EXCEPT
          !.triggers = <<parsed_trigger(HoldTrigger, <<>>)>>] }

LoadControls ==
    { <<>>,
      <<[name |-> "power_button", connection |-> "UART"]>>,
      <<[name |-> "reset_button", connection |-> "JTAG"]>> }

\* Any configuration file that parses: state names and transitions in any
\* order and number, repeated or not.
InitLoad ==
    /\ \E names \in SeqsUpTo({ "Boot", "Ready" }, MaxStates) :
       \E ts \in SeqsUpTo(LoadTransitions, MaxLoadTrans) :
       \E controls \in LoadControls :
         device = [states |-> mk_states(names), transitions |-> ts, controls |-> controls,
                   connections |-> <<SerialInfo("UART", TtyUSB0)>>]
    /\ inputs = MainLines
    /\ sm = NoMachine
    /\ phase = "parsed"
    /\ ret = NoRet
    /\ NoSupervisor

\* main: load_config(..).unwrap(); a configuration that is rejected ends the
\* process.
LoadConfig ==
    /\ phase = "parsed"
    /\ LET r == load_config(device)
       IN  /\ device' = r.device
           /\ phase' = IF r.ok THEN "config" ELSE "rejected"
           /\ ret' = [NoRet EXCEPT !.op = "load_config", !.some = r.ok]
    /\ UNCHANGED <<sm, inputs>>
    /\ UNCHANGED connvars

NextLoad == LoadConfig \/ New

SpecLoad == InitLoad /\ [][NextLoad]_vars

-----------------------------------------------------------------------------
(* What the configuration says, read off the configuration alone.          *)

Built == phase \in { "built", "ready", "panicked" }

DeclaredNames == { device.states[i].name : i \in DOMAIN device.states }

Resolves(t) == t.to \in DeclaredNames /\ \A i \in DOMAIN t.from : t.from[i] \in DeclaredNames

Resolvable == \A i \in DOMAIN device.transitions : Resolves(device.transitions[i])

Max(a, b) == IF a >= b THEN a ELSE b

NumEdges == Len(sm.states.graph.edges)

TotalActions == SumSeq([ i \in DOMAIN device.transitions |-> Len(device.transitions[i].actions) ])

\* The machine with its current state set to cur.
At(cur) == [sm EXCEPT !.current_state = cur]

-----------------------------------------------------------------------------
(* C1 *)

\* C1 as stated: whenever every name resolves, StateMachine::new succeeds
\* and creates sum over the transitions of max(1, |from|) edges.
C1_EdgesMaxOneFrom ==
    (phase # "config" /\ Resolvable) =>
        /\ Built
        /\ NumEdges = SumSeq([ i \in DOMAIN device.transitions |->
                                 Max(1, Len(device.transitions[i].from)) ])

\* C1, amended: whenever every name resolves, StateMachine::new succeeds and
\* creates, summed over the transitions, |from| edges for a non-empty `from`
\* and (number of configured states - 1) edges for an empty `from`.
C1_EdgeCount ==
    (phase # "config" /\ Resolvable) =>
        /\ Built
        /\ NumEdges = SumSeq([ i \in DOMAIN device.transitions |->
                                 IF device.transitions[i].from = <<>>
                                 THEN Len(device.states) - 1
                                 ELSE Len(device.transitions[i].from) ])

\* A three-state machine built from a wildcard and a two-source transition.
C1_Witness ==
    /\ phase = "built"
    /\ Len(device.states) = 3
    /\ Len(device.transitions) = 2
    /\ device.transitions[1].from = <<>>
    /\ Len(device.transitions[2].from) = 2
    /\ NumEdges = 4

-----------------------------------------------------------------------------
(* C2 *)

\* C2: while the current state is unknown, list_actions() is as long as the
\* total number of actions of all transitions.
C2_UnknownListsEveryActionOnce ==
    (Built /\ sm.current_state = None) => Len(list_actions(sm)) = TotalActions

\* What the call recorded in ret saw and did.
Listed == list_actions(At(ret.before))

Test(entry) == action_test(entry.a.value, ret.line)

Returned == ret.op = "process_line" /\ phase = "ready"

\* The node of the state a name resolves to, and that state's index.
NodeOfName(name) == sm.states.states[position(sm.states.states, name)].node

TargetNode(i) == NodeOfName(device.transitions[i].to)

\* The name of the state that owns node n.
NameOfNode(n) ==
    sm.states.states[CHOOSE i \in DOMAIN sm.states.states : sm.states.states[i].node = n].name

Wildcards == { i \in DOMAIN device.transitions : device.transitions[i].from = <<>> }

\* Transition i has an action that matches the line of the recorded call.
HasMatch(i) ==
    \E j \in DOMAIN device.transitions[i].actions :
        action_test(device.transitions[i].actions[j].value, ret.line) = "some"

\* Every action of transition i is in list_actions() of the machine in cur.
Considered(i, cur) ==
    \A j \in DOMAIN device.transitions[i].actions :
        \E k \in DOMAIN list_actions(At(cur)) :
            /\ list_actions(At(cur))[k].t = i
            /\ list_actions(At(cur))[k].a = device.transitions[i].actions[j]

\* The recorded call was given a line that matches an action of transition i
\* and no listed action of another transition, and fired transition i.
OnlyMatch(i) ==
    /\ HasMatch(i)
    /\ \A k \in DOMAIN Listed : Listed[k].t # i => Test(Listed[k]) = "none"
    /\ \A k \in DOMAIN Listed : Test(Listed[k]) # "panic"

Fired(i) ==
    /\ ret.some
    /\ sm.current_state = TargetNode(i)
    /\ sm.current_state # None

-----------------------------------------------------------------------------
(* C3 *)

\* C3 as stated: a transition with an empty `from` is considered in every
\* current state, its own target included: its actions are listed, and a
\* line matching one of them and no other listed action fires it.
C3_WildcardEverywhere ==
    Built => \A i \in Wildcards :
        /\ Considered(i, sm.current_state)
        /\ (Returned /\ OnlyMatch(i)) => Fired(i)

\* C3, amended: when another state than its target is configured, a
\* transition with an empty `from` is considered whenever the current state
\* is unknown or any state other than the transition's target: its actions
\* are listed, and a line matching one of them and no other listed action
\* fires it.
C3_WildcardOutsideTarget ==
    (Built /\ Len(device.states) >= 2) => \A i \in Wildcards :
        /\ sm.current_state # TargetNode(i) => Considered(i, sm.current_state)
        /\ (Returned /\ ret.before # TargetNode(i) /\ OnlyMatch(i)) => Fired(i)

\* A wildcard transition fired from a known state other than its target.
C3_Witness ==
    /\ Returned
    /\ \E i \in Wildcards :
         /\ ret.before # None
         /\ ret.before # TargetNode(i)
         /\ OnlyMatch(i)
         /\ Fired(i)

-----------------------------------------------------------------------------
(* C4 *)

\* C4: in a known state S, list_actions() returns only actions of
\* transitions whose `from` contains S or is empty.
C4_OnlyFromCurrent ==
    (Built /\ sm.current_state # None) =>
        \A k \in DOMAIN list_actions(sm) :
            LET t == device.transitions[list_actions(sm)[k].t]
            IN  t.from = <<>> \/ NameOfNode(sm.current_state) \in Range(t.from)

\* In state S something is listed, while another transition with actions
\* leads into S from elsewhere only.
C4_Witness ==
    /\ phase = "ready"
    /\ sm.current_state # None
    /\ list_actions(sm) # <<>>
    /\ \E i \in DOMAIN device.transitions :
         /\ device.transitions[i].to = NameOfNode(sm.current_state)
         /\ device.transitions[i].from # <<>>
         /\ NameOfNode(sm.current_state) \notin Range(device.transitions[i].from)
         /\ device.transitions[i].actions # <<>>

-----------------------------------------------------------------------------
(* C5 *)

\* The transitions that start from the state of the recorded call by name
\* and have an action matching its line.
MatchingFrom(S) ==
    { i \in DOMAIN device.transitions :
        S \in Range(device.transitions[i].from) /\ HasMatch(i) }

Min(S) == CHOOSE x \in S : \A y \in S : x <= y

\* C5: in state S, when two transitions whose `from` contains S both match
\* the line (and nothing else listed does), the first declared one fires.
C5_FirstDeclaredWins ==
    (Returned /\ ret.before # None) =>
        LET M == MatchingFrom(NameOfNode(ret.before))
        IN  ( /\ Cardinality(M) >= 2
              /\ \A k \in DOMAIN Listed : Listed[k].t \notin M => Test(Listed[k]) = "none" )
            => Fired(Min(M))

-----------------------------------------------------------------------------
(* C6 *)

\* The listed actions that match the line of the recorded call.
Hits == { k \in DOMAIN Listed : Test(Listed[k]) = "some" }

\* The configuration of the end-to-end example: Boot, Ready and one
\* transition Boot -> Ready on the literal READY.
EndToEnd ==
    /\ device.states = mk_states(<<"Boot", "Ready">>)
    /\ Len(device.transitions) = 1
    /\ device.transitions[1].to = "Ready"
    /\ device.transitions[1].from = <<"Boot">>
    /\ device.transitions[1].actions = <<mk_action(READY)>>

\* C6: when a listed action matches, the current state becomes the node of
\* the state named by the owning transition's `to` and that state's declared
\* properties are returned; in the end-to-end example "booting" and
\* "still booting" return nothing and "READY" enters Ready.
C6_EntersTarget ==
    Returned =>
        /\ Hits # {} =>
             /\ ret.some
             /\ \E k \in Hits :
                  LET s == position(device.states, device.transitions[Listed[k].t].to)
                  IN  /\ sm.current_state = sm.states.states[s].node
                      /\ sm.current_state # None
                      /\ ret.props = device.states[s].properties
        /\ (EndToEnd /\ ret.before = None) =>
             /\ ret.line \in { LineBooting, LineStill } =>
                  ~ret.some /\ sm.current_state = None
             /\ ret.line = LineREADY =>
                  /\ ret.some
                  /\ ret.props = <<Baud(115200)>>
                  /\ sm.current_state = NodeOfName("Ready")
                  /\ sm.current_state # None

\* The end-to-end example after the line READY.
C6_Witness ==
    /\ Returned
    /\ EndToEnd
    /\ ret.before = None
    /\ ret.line = LineREADY
    /\ ret.some
    /\ NameOfNode(sm.current_state) = "Ready"

-----------------------------------------------------------------------------
(* C7 *)

\* No action listed in the current state matches the line.
NoMatch(line) ==
    \A k \in DOMAIN list_actions(sm) : action_test(list_actions(sm)[k].a.value, line) = "none"

\* C7: a process_line call whose line matches no listed action returns
\* nothing and leaves the machine, current state and graph, as it was.
C7_NoMatchNoChange ==
    [][ (phase = "ready" /\ ret'.op = "process_line" /\ NoMatch(ret'.line))
            => (~ret'.some /\ sm' = sm /\ phase' = "ready") ]_vars

\* A call in a known state, with actions listed, that matched nothing.
C7_Witness ==
    /\ Returned
    /\ ret.before # None
    /\ Listed # <<>>
    /\ Hits = {}
    /\ ~ret.some
    /\ sm.current_state = ret.before

-----------------------------------------------------------------------------
(* C8 *)

\* C8: StateMachine::new fails exactly when some transition names a state
\* that is not configured, wherever that transition stands, and then no
\* machine is returned.
C8_ErrorIffUnresolved ==
    (phase # "config") =>
        /\ (phase = "error") <=> ~Resolvable
        /\ (phase = "error") => sm = NoMachine

\* The second of two transitions names an unknown state after the first one
\* was resolved; construction failed.
C8_Witness ==
    /\ phase = "error"
    /\ Len(device.transitions) = 2
    /\ Resolves(device.transitions[1])
    /\ ~Resolves(device.transitions[2])

-----------------------------------------------------------------------------
(* C9 *)

\* value occurs in line as a contiguous run of characters.
Contains(line, value) ==
    \E i \in 1..(Len(line) - Len(value) + 1) : SubSeq(line, i, i + Len(value) - 1) = value

LiteralOnly(re) == \A j \in DOMAIN re : re[j] \in { "E", "R" }

TheValue == device.transitions[1].actions[1].value

\* C9: a value that starts with ^ matches iff the regular expression that
\* follows the marker matches somewhere in the line (so ^ERR matches every
\* line containing ERR); any other value matches iff the line contains it.
C9_MarkerSelectsRegex ==
    (ret.op = "process_line" /\ ret.before = None /\ Len(device.transitions) = 1
        /\ Len(device.transitions[1].actions) = 1 /\ Wildcards = {1}
        /\ Len(device.states) >= 2) =>
        IF TheValue # <<>> /\ Head(TheValue) = "^"
        THEN /\ (phase = "panicked") <=> ~Regex_new_ok(Tail(TheValue))
             /\ phase = "ready" => (ret.some <=> is_match(Tail(TheValue), ret.line))
             /\ LiteralOnly(Tail(TheValue)) => (ret.some <=> Contains(ret.line, Tail(TheValue)))
        ELSE /\ phase = "ready"
             /\ ret.some <=> Contains(ret.line, TheValue)

\* ^ERR matched a line that has ERR after its first character.
C9_Witness ==
    /\ Returned
    /\ ret.before = None
    /\ TheValue = RegexERR
    /\ ret.line = <<"x", "E", "R", "R">>
    /\ ret.some

-----------------------------------------------------------------------------
(* C10 *)

RECURSIVE ExpectedTriggers(_)
ExpectedTriggers(ts) ==
    IF ts = <<>> THEN <<>>
    ELSE SelectSeq(Head(ts).triggers, LAMBDA t : t.sequence # <<>>)
            \o ExpectedTriggers(Tail(ts))

\* C10: list_triggers() yields the triggers with a non-empty sequence, once
\* per owning transition, in declaration order, whatever the current state
\* and however often it is called.
C10_TriggersListed ==
    Built =>
        /\ list_triggers(sm) = ExpectedTriggers(device.transitions)
        /\ ret.op = "list_triggers" => ret.triggers = ExpectedTriggers(device.transitions)

\* The triggers were listed for a transition expanded into two edges that
\* has a documentation-only trigger and one with a sequence.
C10_Witness ==
    /\ ret.op = "list_triggers"
    /\ \E i \in DOMAIN device.transitions :
         /\ Len(sm.states.edges[i].ids) = 2
         /\ device.transitions[i].triggers = <<DocTrigger, PressTrigger>>
    /\ PressTrigger \in Range(ret.triggers)
    /\ DocTrigger \notin Range(ret.triggers)

-----------------------------------------------------------------------------
(* What the supervisor was configured with.                                *)

SerialInfos == SelectSeq(c_info, LAMBDA d : d.kind = "Serial")

SerialLabels == [ i \in DOMAIN SerialInfos |-> SerialInfos[i].label ]

HandleLabels == [ i \in DOMAIN connections |-> connections[i].info.label ]

-----------------------------------------------------------------------------
(* C11 *)

\* The machine has entered a state that declares baud 9600 and then one that
\* declares baud 115200, and no other.
EnteredSlowThenFast == log.entered = << <<Baud(9600)>>, <<Baud(115200)>> >>

IsPrefix(p, q) == Len(p) <= Len(q) /\ p = SubSeq(q, 1, Len(p))

-----------------------------------------------------------------------------
(* C12 *)

\* The lines handle h's device has sent so far: those read and those waiting.
Sent(h) == IF h \in Handles THEN Len(log.read[h]) + Len(env.wire[h].pending) ELSE 0

Received(h) == IF h \in Handles THEN Len(log.recv[h]) ELSE 0

\* C12: with the tasks scheduled fairly, every line a device sends is
\* eventually read, forwarded and passed to process_line by the dispatch
\* loop, whether or not anything happens in the watched directory.
C12_EveryLineForwarded ==
    \A h \in 1..MaxConns : \A n \in 1..MaxEmit :
        (Sent(h) >= n) ~> (Received(h) >= n)

-----------------------------------------------------------------------------
(* C13 *)

InRead(h) == pc.conn.at = "read" /\ pc.conn.i = h

\* C13: every call of Serial::read returns: whatever the device does, the
\* read duty does not stay in the read of one handle forever.
C13_ReadReturns ==
    \A h \in 1..MaxConns : InRead(h) ~> ~InRead(h)

-----------------------------------------------------------------------------
(* C14 *)

\* C14: Connections::new terminates for every list of descriptors (it goes
\* round its loop once per descriptor), accepts SSH and USB descriptors
\* without failing, fails only when a serial device does not open, and
\* returns one handle per serial descriptor, in descriptor order.
C14_OneHandlePerSerial ==
    /\ log.iters <= Len(c_info)
    /\ log.why \notin { "unimplemented", "add_watch" }
    /\ pc.main = "new_ok" => HandleLabels = SerialLabels

-----------------------------------------------------------------------------
(* C15 *)

\* C15: when one configured serial connection cannot be opened and another
\* one can, the failure does not make Connections::new fail: the supervisor
\* is constructed.
C15_FailureConfined ==
    ( \E i, j \in DOMAIN c_info :
        /\ i # j
        /\ c_info[i].kind = "Serial" /\ c_info[i].path \notin env.present
        /\ c_info[j].kind = "Serial" /\ c_info[j].path \in env.present )
    => ~(pc.main = "new_err" /\ log.why = "OpenFailed")

-----------------------------------------------------------------------------
(* C16 *)

\* The name the device file of handle h has in its directory.
FileName(h) == << connections[h].info.path[Len(connections[h].info.path)] >>

\* The create events handled so far that name the device file of handle h.
Recreated(h) == Len(SelectSeq(log.creates, LAMBDA name : name = FileName(h)))

\* C16: when poll has handled the create events, each handle has been
\* reopened once per create event for its device file, and not for any
\* other file created in the watched directory.
C16_OneReopenPerRecreate ==
    pc.conn.at = "done" =>
        \A h \in Handles : log.reopens[h] = Recreated(h)

-----------------------------------------------------------------------------
(* C17 *)

\* C17: main_loop never returns success, and once the read duty or the
\* dispatch loop has terminated, main_loop fails.
C17_TerminationIsFatal ==
    /\ [](pc.main # "returned_ok")
    /\ (pc.conn.at = "done" \/ pc.event = "panicked") ~> (pc.main \in { "failed", "panicked" })

-----------------------------------------------------------------------------
(* C18 *)

\* The lines of handle h that are in the event channel, oldest first.
InFlight(h) ==
    LET evs == SelectSeq(rx, LAMBDA ev : ev.origin = h)
    IN  [ i \in DOMAIN evs |-> evs[i].event ]

-----------------------------------------------------------------------------
(* C19 *)

\* The state names a transition refers to: its `to`, the members of its
\* `from` and, when `from` is empty, every state it is expanded to.
ReferencedNames ==
    UNION { LET t == device.transitions[i]
            IN  {t.to} \cup Range(t.from) \cup
                (IF t.from = <<>>
                 THEN { device.states[j].name :
                          j \in DOMAIN device.states \ {position(device.states, t.to)} }
                 ELSE {})
          : i \in DOMAIN device.transitions }

\* The graph nodes held by the states of a name.
NodesOfName(name) ==
    { sm.states.states[i].node :
        i \in { j \in DOMAIN sm.states.states : sm.states.states[j].name = name } } \ { None }

OneNodePerName ==
    Built =>
        /\ \A name \in ReferencedNames : Cardinality(NodesOfName(name)) = 1
        /\ \A n1, n2 \in ReferencedNames :
              n1 # n2 => NodesOfName(n1) \cap NodesOfName(n2) = {}

\* C19: after StateMachine::new every state name a transition refers to has
\* exactly one graph node, different names never share a node, and no later
\* operation changes the nodes or the edges.
C19_OneNodePerName ==
    [][ /\ OneNodePerName'
        /\ (Built /\ Built') => sm'.states = sm.states ]_vars

-----------------------------------------------------------------------------
(* C20 *)

\* C20: process_line tests the actions in list_actions() order and fires the
\* transition that owns the first one matching the line, whatever matches
\* after it.
C20_FirstMatchWins ==
    (Returned /\ Hits # {}) =>
        LET first == Listed[Min(Hits)].t
            s == position(device.states, device.transitions[first].to)
        IN  /\ ret.some
            /\ sm.current_state = sm.states.states[s].node
            /\ ret.props = device.states[s].properties

\* Two listed actions matched, of transitions into different states, and
\* the one listed first fired.
C20_Witness ==
    /\ Returned
    /\ \E k \in Hits :
         /\ k # Min(Hits)
         /\ TargetNode(Listed[k].t) # TargetNode(Listed[Min(Hits)].t)
    /\ Fired(Listed[Min(Hits)].t)

-----------------------------------------------------------------------------
(* C21 *)

\* The nodes StateMachine::new gave to the configured states.
ConfiguredNodes == { sm.states.states[i].node : i \in DOMAIN sm.states.states } \ { None }

\* C21: the current state is unknown from construction until the first
\* process_line call that returns properties, which makes it known; it is
\* always either unknown or the node of a configured state; and once known
\* it never becomes unknown again.
C21_KnownStaysKnown ==
    /\ [](phase \in { "config", "built", "error" } => sm.current_state = None)
    /\ [](sm.current_state = None \/ sm.current_state \in ConfiguredNodes)
    /\ [][ /\ sm.current_state # None => sm'.current_state # None
           /\ (sm.current_state = None /\ sm'.current_state # None)
                 => (ret'.op = "process_line" /\ ret'.some)
           /\ (ret'.op = "process_line" /\ ret'.some) => sm'.current_state # None ]_vars

\* A machine whose state was known was given a line that returned nothing,
\* and its state is still that configured state's node.
C21_Witness ==
    /\ phase = "ready"
    /\ ret.op = "process_line"
    /\ ~ret.some
    /\ ret.before # None
    /\ sm.current_state = ret.before
    /\ sm.current_state \in ConfiguredNodes

-----------------------------------------------------------------------------
(* C22 *)

\* The line events received so far for which process_line returned
\* properties, as the batches they returned.
Transitioned == log.entered

\* C22: the batches the dispatch loop has sent on the broadcast channel are
\* the properties of the line events whose process_line call returned some,
\* one batch each and in the order of the calls; events of other kinds and
\* lines that match nothing send no batch.
C22_OneBatchPerTransition == log.batches = Transitioned

\* Three events were handled: a line that fired a transition, bytes, and a
\* line that fired another; two batches were sent.
C22_Witness ==
    /\ rx = <<>>
    /\ pc.event = "recv"
    /\ Len(log.recv[1]) = 3
    /\ log.recv[1][2] = BytesERR
    /\ log.read[1][2] = BytesERR
    /\ Len(log.batches) = 2
    /\ log.batches[1] # log.batches[2]

-----------------------------------------------------------------------------
(* C23 *)

TheLock == connections[1].ctrl.port

\* The callers that are between taking the lock and returning.
InAction == { c \in DOMAIN pc.act : pc.act[c].at \in { "call", "exit" } }

\* A line is ready for the read in progress.
LineReady == pc.conn.at = "read" /\ env.wire[pc.conn.i].pending # <<>>

\* C23: the lock is held exactly by a caller that is inside one
\* SerialControl::action call, so it has been released whenever a call has
\* returned, with success or with failure; while it is held its holder does
\* nothing but the hardware call and the return, no read and no channel
\* send; while a caller waits for it some caller can go on; and a read with
\* a line ready can go on whoever holds it.
C23_LockOnlyAroundCall ==
    /\ [](InAction = (IF TheLock.holder = NoHolder THEN {} ELSE { TheLock.holder }))
    /\ []((\E c \in DOMAIN pc.act : pc.act[c].at = "lock") => ENABLED <<ControlCallers>>_vars)
    /\ [](LineReady => ENABLED <<SerialReadLine>>_vars)
    /\ [][ TheLock.holder # NoHolder =>
             \/ /\ TheLock'.holder \in { TheLock.holder, NoHolder }
                /\ pc'.act # pc.act
                /\ rx' = rx /\ log'.read = log.read
             \/ /\ TheLock' = TheLock
                /\ pc'.act = pc.act ]_vars

\* A call of the bootstrap code has failed and returned, after which the
\* control duty holds the lock, a line having been read and sent meanwhile.
C23_Witness ==
    /\ pc.act # <<>>
    /\ pc.act["bootstrap"].at = "failed"
    /\ pc.act["bootstrap"].outcome = "err"
    /\ TheLock.holder = "control"
    /\ rx # <<>>

-----------------------------------------------------------------------------
(* C24 *)

\* The label configured for the handle that sent the event.
LabelOf(ev) == connections[ev.origin].info.label

\* C24: every event in the event channel carries the label of the handle
\* whose read sent it, so that two events of handles with different labels
\* carry different tags.
C24_TaggedWithLabel ==
    /\ \A k \in DOMAIN rx : rx[k].device = LabelOf(rx[k])
    /\ \A j, k \in DOMAIN rx : LabelOf(rx[j]) # LabelOf(rx[k]) => rx[j].device # rx[k].device

-----------------------------------------------------------------------------
(* C25 *)

\* One of the two opens of the last Serial::new call has failed.
OpenHasFailed == log.why \in { "OpenFailed", "raw open" }

\* C25: when an open of Serial::new fails, the stream's or the raw control
\* port's, Serial::new returns OpenFailed to Connections::new and the
\* process does not panic.
C25_OpenFailureIsOpenFailed ==
    OpenHasFailed => (log.why = "OpenFailed" /\ pc.main # "panicked")

-----------------------------------------------------------------------------
(* C26 *)

\* C26: poll never returns an error on account of a reopen, and every
\* create event for a handle's device file, the first and any later one,
\* whatever became of the reopens before it, is a reopen attempt.
C26_ReopenFailureOnlyLogged ==
    /\ pc.conn.at = "done" => pc.conn.result = "ok"
    /\ \A h \in Handles : Recreated(h) > 0 => log.reopens[h] = Recreated(h)

-----------------------------------------------------------------------------
(* C27 *)

\* Two states of one name, or two transitions of one (`from`, `to`) pair.
HasDuplicates ==
    \/ \E i, j \in DOMAIN device.states :
          i # j /\ device.states[i].name = device.states[j].name
    \/ \E i, j \in DOMAIN device.transitions :
          /\ i # j
          /\ device.transitions[i].from = device.transitions[j].from
          /\ device.transitions[i].to = device.transitions[j].to

\* C27: a configuration with two states of one name or two transitions of
\* one (`from`, `to`) pair, next to each other or not, is rejected by
\* load_config and never reaches StateMachine::new.
C27_DuplicatesRejected ==
    HasDuplicates => phase \in { "parsed", "rejected" }

====
